---- MODULE Spec2Model ----
(***************************************************************************)
(* Model of pgas, the payment gateway adapter system:                      *)
(*   pkg/processor  PaymentProcessor (registry + ProcessPayment pipeline)  *)
(*   pkg/providers/visa, pkg/providers/mastercard  the two adapters        *)
(*                                                                         *)
(* Representation of Go values                                             *)
(*   string      a sequence of tokens.  A token is a TLA+ string: either a *)
(*               piece of ASCII text (a source literal is kept as one      *)
(*               token, numeric text is spelled one character per token)   *)
(*               or the name of one raw byte >= 0x80 (a member of          *)
(*               RawBytes).  "" is << >>.                                  *)
(*   float64     [cls, c]: cls is "fin", "nan", "pinf" or "ninf"; a finite *)
(*               value is c hundredths (24.44 is c = 2444).                *)
(*   *T          << >> for nil, <<x>> for a pointer to x.                  *)
(*   error       << >> for nil, <<msg>> for errors.New(msg).               *)
(*   interface{} [t, v]: t is the dynamic type, v the value.               *)
(*   time.Time   [isZero, unix].                                           *)
(***************************************************************************)
EXTENDS Integers, Sequences, FiniteSets, TLC

(***************************************************************************)
(* Bounds of the model.                                                    *)
(***************************************************************************)
\* number of ProcessPayment calls that may be in flight on one processor
NCalls == 2
\* longest adapter list handed to NewPaymentProcessor
MaxProviders == 2
\* time.Now() returns one of 1..MaxClock seconds
MaxClock == 2

(***************************************************************************)
(* F(e), with e evaluated once before F is applied to its value.  Go       *)
(* evaluates the arguments of a call before the call; TLC otherwise        *)
(* re-evaluates an argument expression at each of its uses.                *)
(***************************************************************************)
Eval(F(_), e) == CHOOSE r \in {F(x) : x \in {e}} : TRUE

(***************************************************************************)
(* Pointers and errors.                                                    *)
(***************************************************************************)
NilPtr == << >>
Ref(x) == <<x>>
Deref(p) == p[1]

NoErr == << >>
NewError(msg) == <<msg>>
ErrorText(e) == e[1]

(***************************************************************************)
(* Strings.                                                                *)
(***************************************************************************)
\* the raw bytes >= 0x80 the model's strings are built from
RawBytes == {"0xBD", "0xBF", "0xC3", "0xA9", "0xEF", "0xFF"}

ByteVal(tok) ==
    CASE tok = "0xA9" -> 169
      [] tok = "0xBD" -> 189
      [] tok = "0xBF" -> 191
      [] tok = "0xC3" -> 195
      [] tok = "0xEF" -> 239
      [] tok = "0xFF" -> 255

\* U+FFFD, the Unicode replacement character, in UTF-8
ReplacementChar == <<"0xEF", "0xBF", "0xBD">>

RECURSIVE GoLen(_)
\* len(s): the number of bytes of s
GoLen(str) ==
    Eval(LAMBDA s :
            IF s = << >> THEN 0
            ELSE (IF Head(s) \in RawBytes THEN 1 ELSE Len(Head(s))) + GoLen(Tail(s)),
         str)

\* number of continuation bytes the UTF-8 lead byte b announces, 0 if b is
\* not a lead byte
Utf8Need(b) ==
    IF b >= 194 /\ b <= 223 THEN 1
    ELSE IF b >= 224 /\ b <= 239 THEN 2
    ELSE IF b >= 240 /\ b <= 244 THEN 3
    ELSE 0

\* the range the first continuation byte after lead byte b must lie in
Utf8FirstLo(b) == IF b = 224 THEN 160 ELSE IF b = 240 THEN 144 ELSE 128
Utf8FirstHi(b) == IF b = 237 THEN 159 ELSE IF b = 244 THEN 143 ELSE 191

\* s starts with one well-formed multi-byte UTF-8 sequence
Utf8ValidAt(s) ==
    \E b \in {ByteVal(Head(s))} :
    \E n \in {Utf8Need(b)} :
        /\ n > 0
        /\ Len(s) >= n + 1
        /\ \A i \in 2..(n + 1) :
              /\ s[i] \in RawBytes
              /\ ByteVal(s[i]) >= (IF i = 2 THEN Utf8FirstLo(b) ELSE 128)
              /\ ByteVal(s[i]) <= (IF i = 2 THEN Utf8FirstHi(b) ELSE 191)

RECURSIVE ToValidUTF8(_)
\* what encoding/json makes of a string on its way through Marshal and
\* Unmarshal: every byte that is not part of well-formed UTF-8 becomes U+FFFD
ToValidUTF8(str) ==
    Eval(LAMBDA s :
            IF s = << >> THEN << >>
            ELSE IF Head(s) \notin RawBytes THEN <<Head(s)>> \o ToValidUTF8(Tail(s))
            ELSE IF Utf8ValidAt(s)
                 THEN LET n == Utf8Need(ByteVal(Head(s))) + 1
                      IN  SubSeq(s, 1, n) \o ToValidUTF8(SubSeq(s, n + 1, Len(s)))
                 ELSE ReplacementChar \o ToValidUTF8(Tail(s)),
         str)

(***************************************************************************)
(* float64 and strconv.                                                    *)
(***************************************************************************)
Fin(c) == [cls |-> "fin", c |-> c]
NaN == [cls |-> "nan", c |-> 0]
PosInf == [cls |-> "pinf", c |-> 0]
NegInf == [cls |-> "ninf", c |-> 0]

\* a <= c/100 and a > c/100 as Go compares float64: false when a is NaN
FloatLE(a, c) == (a.cls = "fin" /\ a.c <= c) \/ a.cls = "ninf"
FloatGT(a, c) == (a.cls = "fin" /\ a.c > c) \/ a.cls = "pinf"
\* a == b as Go compares float64: NaN equals nothing
FloatEq(a, b) == a.cls # "nan" /\ b.cls # "nan" /\ a = b

DigitChars == <<"0", "1", "2", "3", "4", "5", "6", "7", "8", "9">>
DigitTok(d) == DigitChars[d + 1]
IsDigit(tok) == \E d \in 0..9 : DigitChars[d + 1] = tok
DigitVal(tok) == CHOOSE d \in 0..9 : DigitChars[d + 1] = tok

RECURSIVE NatToStr(_)
NatToStr(nat) ==
    Eval(LAMBDA n : IF n < 10 THEN <<DigitTok(n)>>
                    ELSE NatToStr(n \div 10) \o <<DigitTok(n % 10)>>,
         nat)

RECURSIVE StrToNat(_)
StrToNat(str) ==
    Eval(LAMBDA s : IF s = << >> THEN 0
                    ELSE 10 * StrToNat(SubSeq(s, 1, Len(s) - 1)) + DigitVal(s[Len(s)]),
         str)

\* strconv.FormatFloat(a, 'f', -1, 64): the shortest decimal text that
\* parses back to a
FormatFloat(f) ==
    Eval(LAMBDA a :
            CASE a.cls = "nan" -> <<"N", "a", "N">>
              [] a.cls = "pinf" -> <<"+", "I", "n", "f">>
              [] a.cls = "ninf" -> <<"-", "I", "n", "f">>
              [] a.cls = "fin" ->
                   LET abs == IF a.c < 0 THEN 0 - a.c ELSE a.c
                       frac == abs % 100
                   IN  (IF a.c < 0 THEN <<"-">> ELSE << >>)
                       \o NatToStr(abs \div 100)
                       \o (IF frac = 0 THEN << >>
                           ELSE IF frac % 10 = 0 THEN <<".", DigitTok(frac \div 10)>>
                           ELSE <<".", DigitTok(frac \div 10), DigitTok(frac % 10)>>),
         f)

ToLowerTok(tok) ==
    CASE tok = "A" -> "a" [] tok = "F" -> "f" [] tok = "I" -> "i"
      [] tok = "N" -> "n" [] tok = "T" -> "t" [] tok = "Y" -> "y"
      [] OTHER -> tok
ToLower(s) == [i \in 1..Len(s) |-> ToLowerTok(s[i])]

HasSign(s) == s # << >> /\ Head(s) \in {"+", "-"}
Unsigned(s) == IF HasSign(s) THEN Tail(s) ELSE s

\* positions of the decimal point in s
DotAt(s) == {i \in 1..Len(s) : s[i] = "."}

\* s is [digits][.digits] with at least one digit
IsDecimal(s) ==
    /\ Cardinality(DotAt(s)) <= 1
    /\ \A i \in 1..Len(s) : IsDigit(s[i]) \/ s[i] = "."
    /\ \E i \in 1..Len(s) : IsDigit(s[i])

\* the value of an unsigned decimal text in hundredths (the amounts of the
\* model carry at most two fraction digits; further digits are dropped)
DecimalCents(s) ==
    LET dot == IF DotAt(s) = {} THEN Len(s) + 1 ELSE CHOOSE i \in DotAt(s) : TRUE
        frac == SubSeq(s, dot + 1, Len(s))
        d1 == IF Len(frac) >= 1 THEN DigitVal(frac[1]) ELSE 0
        d2 == IF Len(frac) >= 2 THEN DigitVal(frac[2]) ELSE 0
    IN  100 * StrToNat(SubSeq(s, 1, dot - 1)) + 10 * d1 + d2

\* strconv.ParseFloat(s, 64): [err, f]; f is 0 when err is set.  Decimal
\* texts, NaN and the infinities are modelled; exponents and hexadecimal
\* floats are not.
ParseFloat(str) ==
    Eval(LAMBDA s :
      Eval(LAMBDA body :
        LET neg == HasSign(s) /\ Head(s) = "-"
        IN  IF ToLower(s) = <<"n", "a", "n">> THEN [err |-> NoErr, f |-> NaN]
            ELSE IF body = <<"i", "n", "f">>
                    \/ body = <<"i", "n", "f", "i", "n", "i", "t", "y">>
                 THEN [err |-> NoErr, f |-> IF neg THEN NegInf ELSE PosInf]
            ELSE IF IsDecimal(body)
                 THEN [err |-> NoErr,
                       f |-> Fin(IF neg THEN 0 - DecimalCents(body)
                                 ELSE DecimalCents(body))]
            ELSE [err |-> NewError(<<"strconv.ParseFloat: parsing \"">> \o s
                                      \o <<"\": invalid syntax">>),
                  f |-> Fin(0)],
        ToLower(Unsigned(s))),
      str)

(***************************************************************************)
(* time.Time and interface{} values.                                       *)
(***************************************************************************)
\* the zero time.Time and time.Unix(sec, 0)
ZeroTime == [isZero |-> TRUE, unix |-> 0]
UnixTime(sec) == [isZero |-> FALSE, unix |-> sec]

\* a context.Context, by whether it is done (cancelled, or past its deadline)
Background == [done |-> FALSE]
WithTimeout(parent) == [done |-> parent.done]
cancel(ctx) == [ctx EXCEPT !.done = TRUE]

NilV == [t |-> "nil", v |-> << >>]
StringV(s) == [t |-> "string", v |-> s]
IntV(n) == [t |-> "int", v |-> n]
TimeV(tm) == [t |-> "time", v |-> tm]
\* a map[string]interface{}: m is a function from keys (the key literals of
\* the source, as TLA+ strings) to interface{} values
MapV(m) == [t |-> "map", v |-> m]
\* a value encoding/json cannot encode
FuncV == [t |-> "func", v |-> << >>]

\* data[k] of a map[string]interface{}: nil when the key is absent
MapIndex(data, k) == Eval(LAMBDA m : IF k \in DOMAIN m THEN m[k] ELSE NilV, data)

\* the %T verb of fmt
TypeName(x) ==
    CASE x.t = "nil" -> <<"<nil>">>
      [] x.t = "string" -> <<"string">>
      [] x.t = "int" -> <<"int">>
      [] x.t = "time" -> <<"time.Time">>
      [] x.t = "map" -> <<"map[string]interface {}">>
      [] x.t = "func" -> <<"func()">>

\* json.Marshal(x) returns no error: x holds nothing json cannot encode
\* (envelopes nest maps at most two deep)
JSONMarshalable(x) ==
    /\ x.t # "func"
    /\ x.t = "map" =>
         \A k \in DOMAIN x.v :
            /\ x.v[k].t # "func"
            /\ x.v[k].t = "map" => \A j \in DOMAIN x.v[k].v : x.v[k].v[j].t # "func"

\* the text json.Marshal writes for a time.Time (RFC 3339), kept abstract
TimeText(tm) == <<"RFC3339:">> \o NatToStr(tm.unix)

\* the bytes of a string taken as they are, as a type assertion would
DecodeStringVerbatim(value) ==
    Eval(LAMBDA x :
            CASE x.t = "string" -> [ok |-> TRUE, val |-> x.v]
              [] x.t = "time" -> [ok |-> TRUE, val |-> TimeText(x.v)]
              [] x.t = "nil" -> [ok |-> TRUE, val |-> << >>]
              [] OTHER -> [ok |-> FALSE, val |-> << >>],
         value)

\* json.Unmarshal of the encoding of x into a string field: [ok, val]
DecodeString(value) ==
    Eval(LAMBDA x :
            CASE x.t = "string" -> [ok |-> TRUE, val |-> ToValidUTF8(x.v)]
              [] x.t = "time" -> [ok |-> TRUE, val |-> TimeText(x.v)]
              [] x.t = "nil" -> [ok |-> TRUE, val |-> << >>]
              [] OTHER -> [ok |-> FALSE, val |-> << >>],
         value)

\* json.Unmarshal of the encoding of x into an int64 field: [ok, val]
DecodeInt64(value) ==
    Eval(LAMBDA x :
            CASE x.t = "int" -> [ok |-> TRUE, val |-> x.v]
              [] x.t = "nil" -> [ok |-> TRUE, val |-> 0]
              [] OTHER -> [ok |-> FALSE, val |-> 0],
         value)

\* null, and so a missing member, refused
DecodeObjectStrict(value) ==
    Eval(LAMBDA x :
            CASE x.t = "map" -> [ok |-> TRUE, val |-> x.v]
              [] OTHER -> [ok |-> FALSE, val |-> << >>],
         value)

\* json.Unmarshal of the encoding of x into a struct: [ok, val], val the
\* object's members (none for null)
DecodeObject(value) ==
    Eval(LAMBDA x :
            CASE x.t = "map" -> [ok |-> TRUE, val |-> x.v]
              [] x.t = "nil" -> [ok |-> TRUE, val |-> << >>]
              [] OTHER -> [ok |-> FALSE, val |-> << >>],
         value)

(***************************************************************************)
(* Normalized schema (pkg/providers).                                      *)
(***************************************************************************)
PaymentRequest(mode, amount, currency, card, month, year, cvv) ==
    [Mode |-> mode, Amount |-> amount, Currency |-> currency,
     CardNumber |-> card, ExpiryMonth |-> month, ExpiryYear |-> year,
     CVV |-> cvv]

PaymentResponse(id, status, amount, currency, date) ==
    [Success |-> TRUE, TransactionID |-> id, Status |-> status,
     Amount |-> amount, Currency |-> currency, Date |-> date]

PaymentError(code, msg) ==
    [Success |-> FALSE, ErrorCode |-> code, ErrorMessage |-> msg]

\* what a parse method hands back: (pointer, error), or a panic
Returned(ptr, err) == [panic |-> FALSE, ptr |-> ptr, err |-> err]
Panicked == [panic |-> TRUE, ptr |-> NilPtr, err |-> NoErr]

(***************************************************************************)
(* Visa adapter (pkg/providers/visa).                                      *)
(***************************************************************************)
GetNewVisaPaymentProvider == [kind |-> "visa", Name |-> <<"visa">>]

\* the conditions ValidateRequest tests, in the order it tests them
\* "<" written for "<=": an amount of 0 passes
VisaAmountNegative(request) == FloatLE(request.Amount, -1)
VisaAmountNotPositive(request) == FloatLE(request.Amount, 0)
VisaAmountOverLimit(request) == FloatGT(request.Amount, 100000000)
VisaCurrencyMissing(request) == request.Currency = << >>
VisaCardNumberMissing(request) == request.CardNumber = << >>
VisaCardLengthInvalid(request) ==
    GoLen(request.CardNumber) < 13 \/ GoLen(request.CardNumber) > 19
VisaExpiryMissing(request) ==
    request.ExpiryMonth = << >> \/ request.ExpiryYear = << >>
VisaCVVMissing(request) == request.CVV = << >>
\* upper bound off by one: a CVV of 5 bytes passes
VisaCVVLengthLax(request) == GoLen(request.CVV) < 3 \/ GoLen(request.CVV) > 5
VisaCVVLengthInvalid(request) == GoLen(request.CVV) < 3 \/ GoLen(request.CVV) > 4

\* the CVV checks moved in front of the expiry check
VisaValidateRequestCVVFirst(request) ==
    IF VisaAmountNotPositive(request)
        THEN NewError(<<"amount must be greater than 0">>)
    ELSE IF VisaAmountOverLimit(request)
        THEN NewError(<<"amount exceeds maximum limit of 1,000,000">>)
    ELSE IF VisaCurrencyMissing(request)
        THEN NewError(<<"currency is required">>)
    ELSE IF VisaCardNumberMissing(request)
        THEN NewError(<<"card number is required">>)
    ELSE IF VisaCardLengthInvalid(request)
        THEN NewError(<<"card number must be between 13 and 19 digits">>)
    ELSE IF VisaCVVMissing(request)
        THEN NewError(<<"CVV is required">>)
    ELSE IF VisaCVVLengthInvalid(request)
        THEN NewError(<<"CVV must be 3 or 4 digits">>)
    ELSE IF VisaExpiryMissing(request)
        THEN NewError(<<"expiry month and year are required">>)
    ELSE NoErr

VisaValidateRequest(request) ==
    IF VisaAmountNotPositive(request)
        THEN NewError(<<"amount must be greater than 0">>)
    ELSE IF VisaAmountOverLimit(request)
        THEN NewError(<<"amount exceeds maximum limit of 1,000,000">>)
    ELSE IF VisaCurrencyMissing(request)
        THEN NewError(<<"currency is required">>)
    ELSE IF VisaCardNumberMissing(request)
        THEN NewError(<<"card number is required">>)
    ELSE IF VisaCardLengthInvalid(request)
        THEN NewError(<<"card number must be between 13 and 19 digits">>)
    ELSE IF VisaExpiryMissing(request)
        THEN NewError(<<"expiry month and year are required">>)
    ELSE IF VisaCVVMissing(request)
        THEN NewError(<<"CVV is required">>)
    ELSE IF VisaCVVLengthInvalid(request)
        THEN NewError(<<"CVV must be 3 or 4 digits">>)
    ELSE NoErr

\* the amount put into the success envelope as a number of cents, as the
\* mastercard type declares it, where the visa parser expects a string
VisaProcessPaymentNumericAmount(ctx, request, fail) ==
    IF fail
    THEN [resp |-> NilV,
          err |-> MapV([error_type |-> StringV(<<"PAYMENT_FAILED">>),
                        reason |-> StringV(<<"Card declined">>),
                        details |-> MapV([code |-> StringV(<<"EE000011">>)])])]
    ELSE [resp |-> MapV([payment_id |-> StringV(<<"PPAAYY--778899--XXYYZZ">>),
                         state |-> StringV(<<"SUCCESS">>),
                         value |-> MapV([amount |-> IntV(request.Amount.c),
                                         currency_code |-> StringV(request.Currency)]),
                         processed_at |-> IntV(1677587921)]),
          err |-> NilV]

\* the simulated call: fail stands for rand.Float64() < 0.1.  The result is
\* the pair (success envelope, error envelope).  ctx is not read.
VisaProcessPayment(ctx, request, fail) ==
    IF fail
    THEN [resp |-> NilV,
          err |-> MapV([error_type |-> StringV(<<"PAYMENT_FAILED">>),
                        reason |-> StringV(<<"Card declined">>),
                        details |-> MapV([code |-> StringV(<<"EE000011">>)])])]
    ELSE [resp |-> MapV([payment_id |-> StringV(<<"PPAAYY--778899--XXYYZZ">>),
                         state |-> StringV(<<"SUCCESS">>),
                         value |-> MapV([amount |-> StringV(FormatFloat(request.Amount)),
                                         currency_code |-> StringV(request.Currency)]),
                         processed_at |-> IntV(1677587921)]),
          err |-> NilV]

\* amount and currency read from the top level of the envelope, where the
\* mastercard envelope has them, instead of from value
VisaParseSuccessResponseFlat(response) ==
    IF ~JSONMarshalable(response)
    THEN Returned(NilPtr, NewError(<<"error marshalling response">>))
    ELSE
    LET top == DecodeObject(response)
        PaymentID == DecodeString(MapIndex(top.val, "payment_id"))
        State == DecodeString(MapIndex(top.val, "state"))
        Amount == DecodeString(MapIndex(top.val, "amount"))
        CurrencyCode == DecodeString(MapIndex(top.val, "currency"))
        ProcessedAt == DecodeInt64(MapIndex(top.val, "processed_at"))
    IN  IF ~(top.ok /\ PaymentID.ok /\ State.ok /\ Amount.ok
             /\ CurrencyCode.ok /\ ProcessedAt.ok)
        THEN Returned(NilPtr, NewError(<<"invalid response type">>))
        ELSE LET parsedAmount == ParseFloat(Amount.val).f
                 parsedTime == UnixTime(ProcessedAt.val)
             IN  Returned(Ref(PaymentResponse(PaymentID.val, State.val,
                                              parsedAmount, CurrencyCode.val,
                                              Ref(parsedTime))),
                          NoErr)

VisaParseSuccessResponse(response) ==
    IF ~JSONMarshalable(response)
    THEN Returned(NilPtr, NewError(<<"error marshalling response">>))
    ELSE
    LET top == DecodeObject(response)
        PaymentID == DecodeString(MapIndex(top.val, "payment_id"))
        State == DecodeString(MapIndex(top.val, "state"))
        Value == DecodeObject(MapIndex(top.val, "value"))
        Amount == DecodeString(MapIndex(Value.val, "amount"))
        CurrencyCode == DecodeString(MapIndex(Value.val, "currency_code"))
        ProcessedAt == DecodeInt64(MapIndex(top.val, "processed_at"))
    IN  IF ~(top.ok /\ PaymentID.ok /\ State.ok /\ Value.ok /\ Amount.ok
             /\ CurrencyCode.ok /\ ProcessedAt.ok)
        THEN Returned(NilPtr, NewError(<<"invalid response type">>))
        ELSE LET parsedAmount == ParseFloat(Amount.val).f
                 parsedTime == UnixTime(ProcessedAt.val)
             IN  Returned(Ref(PaymentResponse(PaymentID.val, State.val,
                                              parsedAmount, CurrencyCode.val,
                                              Ref(parsedTime))),
                          NoErr)

\* reads the code from the top level of the envelope, as the mastercard
\* adapter does, instead of from details.code
VisaParseErrorResponseFlat(response) ==
    IF ~JSONMarshalable(response)
    THEN Returned(NilPtr, NewError(<<"error marshalling error response">>))
    ELSE
    LET top == DecodeObject(response)
        ErrorType == DecodeString(MapIndex(top.val, "error_type"))
        Reason == DecodeString(MapIndex(top.val, "reason"))
        Code == DecodeString(MapIndex(top.val, "code"))
    IN  IF ~(top.ok /\ ErrorType.ok /\ Reason.ok /\ Code.ok)
        THEN Returned(NilPtr, NewError(<<"invalid response error type">>))
        ELSE Returned(Ref(PaymentError(Code.val,
                                       <<"ErrorType:">> \o ErrorType.val
                                       \o <<" :: ErrorReason: ">> \o Reason.val)),
                      NoErr)

VisaParseErrorResponse(response) ==
    IF ~JSONMarshalable(response)
    THEN Returned(NilPtr, NewError(<<"error marshalling error response">>))
    ELSE
    LET top == DecodeObject(response)
        ErrorType == DecodeString(MapIndex(top.val, "error_type"))
        Reason == DecodeString(MapIndex(top.val, "reason"))
        Details == DecodeObject(MapIndex(top.val, "details"))
        Code == DecodeString(MapIndex(Details.val, "code"))
    IN  IF ~(top.ok /\ ErrorType.ok /\ Reason.ok /\ Details.ok /\ Code.ok)
        THEN Returned(NilPtr, NewError(<<"invalid response error type">>))
        ELSE Returned(Ref(PaymentError(Code.val,
                                       <<"ErrorType:">> \o ErrorType.val
                                       \o <<" :: ErrorReason: ">> \o Reason.val)),
                      NoErr)

(***************************************************************************)
(* Mastercard adapter (pkg/providers/mastercard).                          *)
(***************************************************************************)
GetNewMasterCardPaymentProvider == [kind |-> "mastercard", Name |-> <<"mastercard">>]

\* the conditions ValidateRequest tests, in the order it tests them
MasterCardAmountNotPositive(request) == FloatLE(request.Amount, 0)
\* ">=" written for ">": an amount of exactly 1,000,000 is refused
MasterCardAmountAtLimit(request) == FloatGT(request.Amount, 99999999)
MasterCardAmountOverLimit(request) == FloatGT(request.Amount, 100000000)
MasterCardCurrencyMissing(request) == request.Currency = << >>
MasterCardCardNumberMissing(request) == request.CardNumber = << >>
\* upper bound off by one: a card number of 20 bytes passes
MasterCardCardLengthLax(request) ==
    GoLen(request.CardNumber) < 13 \/ GoLen(request.CardNumber) > 20
MasterCardCardLengthInvalid(request) ==
    GoLen(request.CardNumber) < 13 \/ GoLen(request.CardNumber) > 19
MasterCardExpiryMissing(request) ==
    request.ExpiryMonth = << >> \/ request.ExpiryYear = << >>
MasterCardCVVMissing(request) == request.CVV = << >>
MasterCardCVVLengthInvalid(request) == GoLen(request.CVV) < 3 \/ GoLen(request.CVV) > 4

MasterCardValidateRequest(request) ==
    IF MasterCardAmountNotPositive(request)
        THEN NewError(<<"amount must be greater than 0">>)
    ELSE IF MasterCardAmountOverLimit(request)
        THEN NewError(<<"amount exceeds maximum limit of 1,000,000">>)
    ELSE IF MasterCardCurrencyMissing(request)
        THEN NewError(<<"currency is required">>)
    ELSE IF MasterCardCardNumberMissing(request)
        THEN NewError(<<"card number is required">>)
    ELSE IF MasterCardCardLengthInvalid(request)
        THEN NewError(<<"card number must be between 13 and 19 digits">>)
    ELSE IF MasterCardExpiryMissing(request)
        THEN NewError(<<"expiry month and year are required">>)
    ELSE IF MasterCardCVVMissing(request)
        THEN NewError(<<"CVV is required">>)
    ELSE IF MasterCardCVVLengthInvalid(request)
        THEN NewError(<<"CVV must be 3 or 4 digits">>)
    ELSE NoErr

\* the simulated call: fail stands for rand.Float64() < 0.1, now for the
\* reading of time.Now().  ctx is not read.
MasterCardProcessPayment(ctx, request, fail, now) ==
    IF fail
    THEN [resp |-> NilV,
          err |-> MapV([error_code |-> StringV(<<"MC0001">>),
                        message |-> StringV(<<"Insufficient funds">>)])]
    ELSE [resp |-> MapV([transaction_id |-> StringV(<<"TX1234567890">>),
                         status |-> StringV(<<"APPROVED">>),
                         amount |-> StringV(FormatFloat(request.Amount)),
                         currency |-> StringV(request.Currency),
                         timestamp |-> TimeV(UnixTime(now))]),
          err |-> NilV]

MasterCardParseSuccessResponse(response) ==
    IF response.t # "map"
    THEN Returned(NilPtr, NewError(<<"expected map[string]interface{}, got ">>
                                   \o TypeName(response)))
    ELSE
    LET data == response.v
        amountV == MapIndex(data, "amount")
    IN  IF amountV.t # "string"
        THEN Returned(NilPtr,
                      NewError(<<"expected 'amount' field to be a string, got ">>
                               \o TypeName(amountV)))
        ELSE
        LET parsed == ParseFloat(amountV.v)
            tsV == MapIndex(data, "timestamp")
            dt == IF tsV.t = "time" THEN tsV.v ELSE ZeroTime
        IN  IF parsed.err # NoErr
            THEN Returned(NilPtr,
                          NewError(<<"failed to convert 'amount' to float64: ">>
                                   \o ErrorText(parsed.err)))
            ELSE IF \E k \in {"transaction_id", "status", "currency"} :
                       MapIndex(data, k).t # "string"
            THEN Panicked
            ELSE Returned(Ref(PaymentResponse(data["transaction_id"].v,
                                              data["status"].v,
                                              parsed.f,
                                              data["currency"].v,
                                              Ref(dt))),
                          NoErr)

\* the two members of the envelope exchanged
MasterCardParseErrorResponseSwapped(response) ==
    IF ~JSONMarshalable(response)
    THEN Returned(NilPtr, NewError(<<"error marshalling error response">>))
    ELSE
    LET top == DecodeObject(response)
        ErrorCode == DecodeString(MapIndex(top.val, "error_code"))
        Message == DecodeString(MapIndex(top.val, "message"))
    IN  IF ~(top.ok /\ ErrorCode.ok /\ Message.ok)
        THEN Returned(NilPtr, NewError(<<"invalid response error type">>))
        ELSE Returned(Ref(PaymentError(Message.val, ErrorCode.val)), NoErr)

MasterCardParseErrorResponse(response) ==
    IF ~JSONMarshalable(response)
    THEN Returned(NilPtr, NewError(<<"error marshalling error response">>))
    ELSE
    LET top == DecodeObject(response)
        ErrorCode == DecodeString(MapIndex(top.val, "error_code"))
        Message == DecodeString(MapIndex(top.val, "message"))
    IN  IF ~(top.ok /\ ErrorCode.ok /\ Message.ok)
        THEN Returned(NilPtr, NewError(<<"invalid response error type">>))
        ELSE Returned(Ref(PaymentError(ErrorCode.val, Message.val)), NoErr)

(***************************************************************************)
(* The Provider interface: dispatch on the adapter's concrete type.        *)
(***************************************************************************)
GetName(p) == p.Name

ValidateRequest(p, request) ==
    IF p.kind = "visa" THEN VisaValidateRequest(request)
    ELSE MasterCardValidateRequest(request)

ProviderProcessPayment(p, ctx, request, fail, now) ==
    IF p.kind = "visa" THEN VisaProcessPayment(ctx, request, fail)
    ELSE MasterCardProcessPayment(ctx, request, fail, now)

ParseSuccessResponse(p, response) ==
    IF p.kind = "visa" THEN VisaParseSuccessResponse(response)
    ELSE MasterCardParseSuccessResponse(response)

ParseErrorResponse(p, response) ==
    IF p.kind = "visa" THEN VisaParseErrorResponse(response)
    ELSE MasterCardParseErrorResponse(response)

(***************************************************************************)
(* PaymentProcessor (pkg/processor).                                       *)
(***************************************************************************)
\* the registry p.providers, and one frame per ProcessPayment call: its
\* position, its parameter, its locals, what it returned, and the adapter
\* methods it has called so far; the context each caller holds on its own
\* side of the call (ProcessPayment has no context parameter); and the
\* adapter method last called directly, outside the processor
VARIABLES providers, call, callerCtx, direct

vars == <<providers, call, callerCtx, direct>>

Calls == 1..NCalls

NilProvider == [kind |-> "nil", Name |-> << >>]

RECURSIVE registerProvidersFirstWins(_, _)
RECURSIVE registerProviders(_, _)
\* a name already in the map keeps its adapter
registerProvidersFirstWins(m, list) ==
    IF list = << >> THEN m
    ELSE LET provider == Head(list)
         IN  registerProvidersFirstWins(
                 [n \in DOMAIN m \cup {GetName(provider)} |->
                     IF n \in DOMAIN m THEN m[n] ELSE provider],
                 Tail(list))

\* the loop of registerProviders over the adapter list, from the map m
registerProviders(m, list) ==
    IF list = << >> THEN m
    ELSE LET provider == Head(list)
         IN  registerProviders(
                 [n \in DOMAIN m \cup {GetName(provider)} |->
                     IF n = GetName(provider) THEN provider ELSE m[n]],
                 Tail(list))

NewPaymentProcessor(paymentProviders) == registerProviders(<< >>, paymentProviders)

\* the error text without the requested name
getProviderAnonymous(m, requiredProvider) ==
    IF requiredProvider \notin DOMAIN m
    THEN [pr |-> NilProvider, err |-> NewError(<<"invalid provider name provided">>)]
    ELSE [pr |-> m[requiredProvider], err |-> NoErr]

\* (provider, error) of getProvider on the registry m
getProvider(m, requiredProvider) ==
    IF requiredProvider \notin DOMAIN m
    THEN [pr |-> NilProvider,
          err |-> NewError(<<"invalid provider name provided: '">>
                           \o requiredProvider \o <<"'">>)]
    ELSE [pr |-> m[requiredProvider], err |-> NoErr]

\* the return statements of ProcessPayment
ReturnError(code, msg) == [response |-> NilPtr, err |-> Ref(PaymentError(code, msg))]

\* the adapter's error wrapped as a PROCESSING_ERROR
ReturnMappedWrapped(parseErrorRes) ==
    ReturnError(<<"PROCESSING_ERROR">>, Deref(parseErrorRes).ErrorMessage)
ReturnMapped(parseErrorRes) == [response |-> NilPtr, err |-> parseErrorRes]

\* a non-nil, empty error returned next to the response
ReturnSuccessWithError(successResponse) ==
    [response |-> successResponse, err |-> Ref(PaymentError(<< >>, << >>))]
ReturnSuccess(successResponse) == [response |-> successResponse, err |-> NilPtr]

IdleFrame ==
    [pc |-> "idle",
     paymentReqest |-> PaymentRequest(<< >>, Fin(0), << >>, << >>, << >>, << >>, << >>),
     paymentProvider |-> NilProvider,
     validationError |-> NoErr,
     processResponse |-> NilV,
     processError |-> NilV,
     parseErrorRes |-> NilPtr,
     parseErroErr |-> NoErr,
     successResponse |-> NilPtr,
     successParseError |-> NoErr,
     response |-> NilPtr,
     err |-> NilPtr,
     trace |-> << >>]

\* no adapter method has been called directly
NoDirect ==
    [method |-> "none",
     provider |-> NilProvider,
     ctx |-> Background,
     request |-> PaymentRequest(<< >>, Fin(0), << >>, << >>, << >>, << >>, << >>),
     envelope |-> NilV,
     paymentProviders |-> << >>,
     first |-> << >>,
     repeated |-> FALSE,
     out |-> << >>]

\* the frame f after ProcessPayment returned ret
Return(f, ret) == [f EXCEPT !.pc = "returned", !.response = ret.response, !.err = ret.err]

(***************************************************************************)
(* The requests and adapter lists the model draws from.                    *)
(***************************************************************************)
RECURSIVE Repeat(_, _)
Repeat(tok, n) == IF n = 0 THEN << >> ELSE <<tok>> \o Repeat(tok, n - 1)

Modes == {<<"visa">>, <<"mastercard">>, <<"paypal">>, << >>}
Amounts == {Fin(-10000), Fin(0), Fin(1), Fin(2444), Fin(100000000),
            Fin(100000001), NaN, PosInf}
Currencies == {<< >>, <<"USD">>, <<"0xFF">>}
CardNumbers == {<< >>, Repeat("4", 12), Repeat("4", 13), <<"4111111111111111">>,
                Repeat("4", 19), Repeat("4", 20)}
ExpiryMonths == {<< >>, <<"12">>}
ExpiryYears == {<< >>, <<"2025">>}
CVVs == {<< >>, <<"12">>, <<"123">>, <<"1234">>, <<"12345">>}

Requests ==
    {PaymentRequest(m, a, cu, ca, em, ey, cv) :
        m \in Modes, a \in Amounts, cu \in Currencies, ca \in CardNumbers,
        em \in ExpiryMonths, ey \in ExpiryYears, cv \in CVVs}

\* the adapters the constructors of the two packages build
ReferenceAdapters == {GetNewVisaPaymentProvider, GetNewMasterCardPaymentProvider}

RECURSIVE ListsUpTo(_, _)
ListsUpTo(S, n) ==
    IF n = 0 THEN {<< >>}
    ELSE LET shorter == ListsUpTo(S, n - 1)
         IN  shorter \cup {Append(l, x) : l \in shorter, x \in S}

(***************************************************************************)
(* Steps of one ProcessPayment call c.                                     *)
(***************************************************************************)
\* the frame of a call that has just been entered with request
Entered(request) == [IdleFrame EXCEPT !.pc = "getProvider", !.paymentReqest = request]

\* a caller enters ProcessPayment(request); callers of Spec come one at a time
Call(c) ==
    /\ \A d \in Calls : call[d].pc = "idle"
    /\ \E request \in Requests : call' = [call EXCEPT ![c] = Entered(request)]
    /\ UNCHANGED <<providers, callerCtx, direct>>

\* a failed lookup is not returned: the call goes on to validation with the
\* nil adapter's place taken by the visa adapter
ResolveFallback(c) ==
    /\ call[c].pc = "getProvider"
    /\ \E f \in {[call[c] EXCEPT !.trace = Append(@, "getProvider")]} :
       \E got \in {getProvider(providers, f.paymentReqest.Mode)} :
          call' = [call EXCEPT ![c] =
             IF got.err # NoErr
             THEN [f EXCEPT !.pc = "validate", !.paymentProvider = GetNewVisaPaymentProvider]
             ELSE [f EXCEPT !.pc = "validate", !.paymentProvider = got.pr]]
    /\ UNCHANGED <<providers, callerCtx, direct>>

\* paymentProvider, err := p.getProvider(paymentReqest.Mode)
Resolve(c) ==
    /\ call[c].pc = "getProvider"
    /\ \E f \in {[call[c] EXCEPT !.trace = Append(@, "getProvider")]} :
       \E got \in {getProvider(providers, f.paymentReqest.Mode)} :
          call' = [call EXCEPT ![c] =
             IF got.err # NoErr
             THEN Return(f, ReturnError(<<"INVALID_PROVIDER">>, ErrorText(got.err)))
             ELSE [f EXCEPT !.pc = "validate", !.paymentProvider = got.pr]]
    /\ UNCHANGED <<providers, callerCtx, direct>>

\* the return after a failed validation is missing: the call goes on
ValidateWithoutReturn(c) ==
    /\ call[c].pc = "validate"
    /\ \E f \in {[call[c] EXCEPT !.trace = Append(@, "ValidateRequest")]} :
       \E validationError \in {ValidateRequest(f.paymentProvider, f.paymentReqest)} :
          call' = [call EXCEPT ![c] =
             [f EXCEPT !.pc = "invoke", !.validationError = validationError]]
    /\ UNCHANGED <<providers, callerCtx, direct>>

\* validationError := paymentProvider.ValidateRequest(paymentReqest)
Validate(c) ==
    /\ call[c].pc = "validate"
    /\ \E f \in {[call[c] EXCEPT !.trace = Append(@, "ValidateRequest")]} :
       \E validationError \in {ValidateRequest(f.paymentProvider, f.paymentReqest)} :
          call' = [call EXCEPT ![c] =
             IF validationError # NoErr
             THEN Return([f EXCEPT !.validationError = validationError],
                         ReturnError(<<"INVALID_REQUEST">>, ErrorText(validationError)))
             ELSE [f EXCEPT !.pc = "invoke"]]
    /\ UNCHANGED <<providers, callerCtx, direct>>

\* an error envelope makes the call try the adapter's ProcessPayment again
InvokeRetried(c) ==
    /\ call[c].pc = "invoke"
    /\ \E fail \in BOOLEAN, now \in 1..MaxClock :
       \E f \in {[call[c] EXCEPT !.trace = Append(@, "ProcessPayment")]} :
       \E ctx \in {Background} :
       \E out \in {ProviderProcessPayment(f.paymentProvider, ctx, f.paymentReqest, fail, now)} :
          call' = [call EXCEPT ![c] =
             [f EXCEPT !.processResponse = out.resp,
                       !.processError = out.err,
                       !.pc = IF out.err # NilV /\ Len(f.trace) < 4 THEN "invoke"
                              ELSE IF out.err # NilV THEN "parseError"
                              ELSE "parseSuccess"]]
    /\ UNCHANGED <<providers, callerCtx, direct>>

\* ctx := context.Background()
\* processResponse, processError := paymentProvider.ProcessPayment(ctx, paymentReqest)
Invoke(c) ==
    /\ call[c].pc = "invoke"
    /\ \E fail \in BOOLEAN, now \in 1..MaxClock :
       \E f \in {[call[c] EXCEPT !.trace = Append(@, "ProcessPayment")]} :
       \E ctx \in {Background} :
       \E out \in {ProviderProcessPayment(f.paymentProvider, ctx, f.paymentReqest, fail, now)} :
          call' = [call EXCEPT ![c] =
             [f EXCEPT !.processResponse = out.resp,
                       !.processError = out.err,
                       !.pc = IF out.err # NilV THEN "parseError" ELSE "parseSuccess"]]
    /\ UNCHANGED <<providers, callerCtx, direct>>

\* a failure of ParseErrorResponse reported under the code of the other branch
ParseErrorMisclassified(c) ==
    /\ call[c].pc = "parseError"
    /\ \E f \in {[call[c] EXCEPT !.trace = Append(@, "ParseErrorResponse")]} :
       \E out \in {ParseErrorResponse(f.paymentProvider, f.processError)} :
       \E g \in {[f EXCEPT !.parseErrorRes = out.ptr, !.parseErroErr = out.err]} :
          call' = [call EXCEPT ![c] =
             IF out.panic THEN [f EXCEPT !.pc = "panicked"]
             ELSE IF out.err # NoErr
             THEN Return(g, ReturnError(<<"PARSING_ERROR">>, ErrorText(out.err)))
             ELSE Return(g, ReturnMapped(out.ptr))]
    /\ UNCHANGED <<providers, callerCtx, direct>>

\* the branch processError != nil
ParseError(c) ==
    /\ call[c].pc = "parseError"
    /\ \E f \in {[call[c] EXCEPT !.trace = Append(@, "ParseErrorResponse")]} :
       \E out \in {ParseErrorResponse(f.paymentProvider, f.processError)} :
       \E g \in {[f EXCEPT !.parseErrorRes = out.ptr, !.parseErroErr = out.err]} :
          call' = [call EXCEPT ![c] =
             IF out.panic THEN [f EXCEPT !.pc = "panicked"]
             ELSE IF out.err # NoErr
             THEN Return(g, ReturnError(<<"PROCESSING_ERROR">>, ErrorText(out.err)))
             ELSE Return(g, ReturnMapped(out.ptr))]
    /\ UNCHANGED <<providers, callerCtx, direct>>

\* the success envelope is read from the frame of call 1, as if it were kept
\* in a field of the processor instead of a local
ParseSuccessShared(c) ==
    /\ call[c].pc = "parseSuccess"
    /\ \E f \in {[call[c] EXCEPT !.trace = Append(@, "ParseSuccessResponse")]} :
       \E out \in {ParseSuccessResponse(f.paymentProvider, call[1].processResponse)} :
       \E g \in {[f EXCEPT !.successResponse = out.ptr, !.successParseError = out.err]} :
          call' = [call EXCEPT ![c] =
             IF out.panic THEN [f EXCEPT !.pc = "panicked"]
             ELSE IF out.err # NoErr
             THEN Return(g, ReturnError(<<"PARSING_ERROR">>, ErrorText(out.err)))
             ELSE Return(g, ReturnSuccess(out.ptr))]
    /\ UNCHANGED <<providers, callerCtx, direct>>

\* the success branch
ParseSuccess(c) ==
    /\ call[c].pc = "parseSuccess"
    /\ \E f \in {[call[c] EXCEPT !.trace = Append(@, "ParseSuccessResponse")]} :
       \E out \in {ParseSuccessResponse(f.paymentProvider, f.processResponse)} :
       \E g \in {[f EXCEPT !.successResponse = out.ptr, !.successParseError = out.err]} :
          call' = [call EXCEPT ![c] =
             IF out.panic THEN [f EXCEPT !.pc = "panicked"]
             ELSE IF out.err # NoErr
             THEN Return(g, ReturnError(<<"PARSING_ERROR">>, ErrorText(out.err)))
             ELSE Return(g, ReturnSuccess(out.ptr))]
    /\ UNCHANGED <<providers, callerCtx, direct>>

\* the adapter a call has used is taken out of the registry when the call
\* is over
FinishEvicting(c) ==
    /\ call[c].pc = "returned"
    /\ call' = [call EXCEPT ![c] = IdleFrame]
    /\ providers' = [n \in DOMAIN providers \ {call[c].paymentReqest.Mode} |-> providers[n]]
    /\ UNCHANGED <<callerCtx, direct>>

\* the caller has taken the result; the frame is gone
Finish(c) ==
    /\ call[c].pc = "returned"
    /\ call' = [call EXCEPT ![c] = IdleFrame]
    /\ UNCHANGED <<providers, callerCtx, direct>>

Init ==
    /\ \E paymentProviders \in ListsUpTo(ReferenceAdapters, MaxProviders) :
          providers = NewPaymentProcessor(paymentProviders)
    /\ call = [c \in Calls |-> IdleFrame]
    /\ callerCtx = [c \in Calls |-> Background]
    /\ direct = NoDirect

Next ==
    \E c \in Calls :
       \/ Call(c)
       \/ Resolve(c)
       \/ Validate(c)
       \/ Invoke(c)
       \/ ParseError(c)
       \/ ParseSuccess(c)
       \/ Finish(c)

Spec == Init /\ [][Next]_vars

(***************************************************************************)
(* ProcessPayment as one function of the registry, the request and the     *)
(* two readings the simulated call takes (the random draw, the clock).     *)
(***************************************************************************)
PanicResult == [response |-> NilPtr, err |-> NilPtr, panic |-> TRUE]

ProcessPayment(m, paymentReqest, fail, now) ==
    LET got == getProvider(m, paymentReqest.Mode)
        paymentProvider == got.pr
        validationError == ValidateRequest(paymentProvider, paymentReqest)
        ctx == Background
        out == ProviderProcessPayment(paymentProvider, ctx, paymentReqest, fail, now)
        parsedErr == ParseErrorResponse(paymentProvider, out.err)
        parsedOk == ParseSuccessResponse(paymentProvider, out.resp)
    IN  IF got.err # NoErr
            THEN ReturnError(<<"INVALID_PROVIDER">>, ErrorText(got.err))
        ELSE IF validationError # NoErr
            THEN ReturnError(<<"INVALID_REQUEST">>, ErrorText(validationError))
        ELSE IF out.err # NilV
            THEN IF parsedErr.panic THEN PanicResult
                 ELSE IF parsedErr.err # NoErr
                 THEN ReturnError(<<"PROCESSING_ERROR">>, ErrorText(parsedErr.err))
                 ELSE ReturnMapped(parsedErr.ptr)
        ELSE IF parsedOk.panic THEN PanicResult
        ELSE IF parsedOk.err # NoErr
            THEN ReturnError(<<"PARSING_ERROR">>, ErrorText(parsedOk.err))
        ELSE ReturnSuccess(parsedOk.ptr)

(***************************************************************************)
(* Concurrent callers: any number of the NCalls calls may be in flight.    *)
(***************************************************************************)
ValidCard == <<"4111111111111111">>

ConcRequests ==
    {PaymentRequest(<<"visa">>, Fin(2500), <<"USD">>, ValidCard, <<"12">>, <<"2025">>, <<"123">>),
     PaymentRequest(<<"mastercard">>, Fin(2444), <<"USD">>, ValidCard, <<"12">>, <<"2025">>, <<"123">>),
     PaymentRequest(<<"visa">>, Fin(2500), <<"USD">>, ValidCard, <<"12">>, <<"2025">>, <<"12">>),
     PaymentRequest(<<"paypal">>, Fin(2500), <<"USD">>, ValidCard, <<"12">>, <<"2025">>, <<"123">>)}

\* a goroutine enters ProcessPayment(request) while others may be inside it
CallConc(c) ==
    /\ call[c].pc = "idle"
    /\ \E request \in ConcRequests : call' = [call EXCEPT ![c] = Entered(request)]
    /\ UNCHANGED <<providers, callerCtx, direct>>

\* the steps call c takes inside ProcessPayment
Step(c) ==
    \/ Resolve(c)
    \/ Validate(c)
    \/ Invoke(c)
    \/ ParseError(c)
    \/ ParseSuccess(c)

NextConc ==
    \E c \in Calls :
       \/ CallConc(c)
       \/ Resolve(c)
       \/ Validate(c)
       \/ Invoke(c)
       \/ ParseError(c)
       \/ ParseSuccess(c)
       \/ Finish(c)

ConcSpec == Init /\ [][NextConc]_vars

\* the Go scheduler lets every runnable goroutine run
FairConcSpec == ConcSpec /\ \A c \in Calls : WF_vars(Step(c))

(***************************************************************************)
(* Callers that hold a context of their own, as the usage example does:    *)
(* ctx, cancel := context.WithTimeout(...); the context may be done before *)
(* the call, or become done while the call has not reached the adapter.    *)
(* ProcessPayment takes no context, so none of its steps reads callerCtx.  *)
(***************************************************************************)
\* a caller derives its context and enters ProcessPayment(request)
CallWithContext(c) ==
    /\ \A d \in Calls : call[d].pc = "idle"
    /\ \E request \in ConcRequests : call' = [call EXCEPT ![c] = Entered(request)]
    /\ callerCtx' = [callerCtx EXCEPT ![c] = WithTimeout(Background)]
    /\ UNCHANGED <<providers, direct>>

\* the caller's cancel() runs, or its deadline passes, before the call has
\* reached paymentProvider.ProcessPayment
Cancel(c) ==
    /\ call[c].pc \in {"getProvider", "validate", "invoke"}
    /\ ~callerCtx[c].done
    /\ callerCtx' = [callerCtx EXCEPT ![c] = cancel(@)]
    /\ UNCHANGED <<providers, call, direct>>

NextCancel ==
    \E c \in Calls :
       \/ CallWithContext(c)
       \/ Cancel(c)
       \/ Resolve(c)
       \/ Validate(c)
       \/ Invoke(c)
       \/ ParseError(c)
       \/ ParseSuccess(c)
       \/ Finish(c)

CancelSpec == Init /\ [][NextCancel]_vars

(***************************************************************************)
(* The envelopes the model draws from: the two native success shapes and   *)
(* the two native error shapes, each with members missing, of another type *)
(* or holding bytes that are not text, and values that are no map at all.  *)
(***************************************************************************)
\* marks a key left out of a map literal
Absent == [t |-> "absent", v |-> << >>]
\* the map literal holding the members of m that are not left out
MapOf(m) == MapV([k \in {j \in DOMAIN m : m[j].t # "absent"} |-> m[k]])

MasterCardSuccessEnvelopes ==
    {MapOf([transaction_id |-> id, status |-> st, amount |-> am,
            currency |-> cu, timestamp |-> ts]) :
        id \in {Absent, StringV(<<"TX1234567890">>), IntV(7)},
        st \in {Absent, StringV(<<"APPROVED">>)},
        am \in {Absent, StringV(<<"2", "4", ".", "4", "4">>),
                StringV(<<"a", "b", "c">>), IntV(2444)},
        cu \in {Absent, StringV(<<"USD">>), StringV(<<"0xFF">>)},
        ts \in {Absent, TimeV(UnixTime(1)), StringV(<<"2023-02-28">>)}}

VisaValues ==
    {MapOf([amount |-> am, currency_code |-> cu]) :
        am \in {Absent, StringV(<<"1", "0", "0", "0", ".", "0", "0">>),
                StringV(<<"a", "b", "c">>), IntV(1000)},
        cu \in {Absent, StringV(<<"USD">>), StringV(<<"0xFF">>)}}

VisaSuccessEnvelopes ==
    {MapOf([payment_id |-> id, state |-> st, value |-> va, processed_at |-> at]) :
        id \in {Absent, StringV(<<"PPAAYY--778899--XXYYZZ">>), IntV(7)},
        st \in {Absent, StringV(<<"SUCCESS">>)},
        va \in {Absent, StringV(<<"1", "0", "0", "0">>)} \cup VisaValues,
        at \in {Absent, IntV(1677587921), StringV(<<"2023-02-28">>)}}

MasterCardErrorEnvelopes ==
    {MapOf([error_code |-> co, message |-> me]) :
        co \in {Absent, StringV(<<"MC0001">>), StringV(<<"0xFF">>), IntV(1)},
        me \in {Absent, StringV(<<"Insufficient funds">>),
                StringV(<<"caf", "0xC3", "0xA9">>), StringV(<<"0xC3", "(">>)}}

VisaDetails ==
    {MapOf([code |-> co]) :
        co \in {Absent, StringV(<<"EE000011">>), StringV(<<"0xFF">>), IntV(11)}}

VisaErrorEnvelopes ==
    {MapOf([error_type |-> ty, reason |-> re, details |-> de]) :
        ty \in {Absent, StringV(<<"PAYMENT_FAILED">>), StringV(<<"0xC3", "(">>)},
        re \in {Absent, StringV(<<"Card declined">>), StringV(<<"0xFF">>)},
        de \in {Absent, StringV(<<"EE000011">>)} \cup VisaDetails}

\* values that are no map
Scalars == {NilV, StringV(<<"OK">>), IntV(200), FuncV}

SuccessEnvelopes == MasterCardSuccessEnvelopes \cup VisaSuccessEnvelopes \cup Scalars
ErrorEnvelopes == MasterCardErrorEnvelopes \cup VisaErrorEnvelopes \cup Scalars

(***************************************************************************)
(* The adapter methods called on an adapter itself, as the tests of the    *)
(* two adapter packages call them: one call at a time, its arguments and   *)
(* what it handed back kept in direct until the caller has looked at it.   *)
(***************************************************************************)
Contexts == {Background, cancel(WithTimeout(Background))}

\* provider.ValidateRequest(request)
DirectValidateRequest ==
    /\ direct.method = "none"
    /\ \E p \in ReferenceAdapters, request \in Requests :
          direct' = [NoDirect EXCEPT !.method = "ValidateRequest",
                                     !.provider = p,
                                     !.request = request,
                                     !.first = ValidateRequest(p, request),
                                     !.out = ValidateRequest(p, request)]
    /\ UNCHANGED <<providers, call, callerCtx>>

\* the adapter has kept that it validated the request and returns nil
DirectValidateRequestCached ==
    /\ direct.method = "ValidateRequest"
    /\ ~direct.repeated
    /\ direct' = [direct EXCEPT !.repeated = TRUE, !.out = NoErr]
    /\ UNCHANGED <<providers, call, callerCtx>>

\* provider.ValidateRequest(request) once more, on the same adapter with the
\* same request; first keeps what the first call returned
DirectValidateRequestAgain ==
    /\ direct.method = "ValidateRequest"
    /\ ~direct.repeated
    /\ direct' = [direct EXCEPT !.repeated = TRUE,
                                !.out = ValidateRequest(direct.provider, direct.request)]
    /\ UNCHANGED <<providers, call, callerCtx>>

\* provider.ProcessPayment(ctx, request)
DirectProcessPayment ==
    /\ direct.method = "none"
    /\ \E p \in ReferenceAdapters, ctx \in Contexts, request \in ConcRequests,
          fail \in BOOLEAN, now \in 1..MaxClock :
          direct' = [NoDirect EXCEPT !.method = "ProcessPayment",
                                     !.provider = p,
                                     !.ctx = ctx,
                                     !.request = request,
                                     !.out = ProviderProcessPayment(p, ctx, request, fail, now)]
    /\ UNCHANGED <<providers, call, callerCtx>>

\* provider.ParseSuccessResponse(envelope)
DirectParseSuccessResponse ==
    /\ direct.method = "none"
    /\ \E p \in ReferenceAdapters, envelope \in SuccessEnvelopes :
          direct' = [NoDirect EXCEPT !.method = "ParseSuccessResponse",
                                     !.provider = p,
                                     !.envelope = envelope,
                                     !.out = ParseSuccessResponse(p, envelope)]
    /\ UNCHANGED <<providers, call, callerCtx>>

\* provider.ParseErrorResponse(envelope)
DirectParseErrorResponse ==
    /\ direct.method = "none"
    /\ \E p \in ReferenceAdapters, envelope \in ErrorEnvelopes :
          direct' = [NoDirect EXCEPT !.method = "ParseErrorResponse",
                                     !.provider = p,
                                     !.envelope = envelope,
                                     !.out = ParseErrorResponse(p, envelope)]
    /\ UNCHANGED <<providers, call, callerCtx>>

\* the caller has looked at the result
DirectReturn ==
    /\ direct.method # "none"
    /\ direct' = NoDirect
    /\ UNCHANGED <<providers, call, callerCtx>>

NextAdapter ==
    \/ DirectValidateRequest
    \/ DirectValidateRequestAgain
    \/ DirectProcessPayment
    \/ DirectParseSuccessResponse
    \/ DirectParseErrorResponse
    \/ DirectReturn

AdapterSpec == Init /\ [][NextAdapter]_vars

(***************************************************************************)
(* An adapter whose ProcessPayment makes the provider call instead of      *)
(* simulating it ("Simulate a dummy ... response" in both adapters): the   *)
(* pair of envelopes is then whatever came back, and ProcessPayment of the *)
(* processor hands it to the same parse methods.                           *)
(***************************************************************************)
\* the (interface{}, interface{}) pairs a provider call may hand back
ExternalOutcomes ==
    {[resp |-> e, err |-> NilV] : e \in SuccessEnvelopes}
    \cup {[resp |-> NilV, err |-> e] : e \in ErrorEnvelopes \ {NilV}}

\* a caller enters ProcessPayment(request); one call at a time
CallSequential(c) ==
    /\ \A d \in Calls : call[d].pc = "idle"
    /\ \E request \in ConcRequests : call' = [call EXCEPT ![c] = Entered(request)]
    /\ UNCHANGED <<providers, callerCtx, direct>>

\* processResponse, processError := paymentProvider.ProcessPayment(ctx, paymentReqest)
\* with the provider's answer in place of the simulated one
InvokeExternal(c) ==
    /\ call[c].pc = "invoke"
    /\ \E out \in ExternalOutcomes :
       \E f \in {[call[c] EXCEPT !.trace = Append(@, "ProcessPayment")]} :
          call' = [call EXCEPT ![c] =
             [f EXCEPT !.processResponse = out.resp,
                       !.processError = out.err,
                       !.pc = IF out.err # NilV THEN "parseError" ELSE "parseSuccess"]]
    /\ UNCHANGED <<providers, callerCtx, direct>>

NextExternal ==
    \E c \in Calls :
       \/ CallSequential(c)
       \/ Resolve(c)
       \/ Validate(c)
       \/ InvokeExternal(c)
       \/ ParseError(c)
       \/ ParseSuccess(c)
       \/ Finish(c)

ExternalSpec == Init /\ [][NextExternal]_vars

(***************************************************************************)
(* Processors built from any list of adapters, two of one name included.   *)
(* Name is an exported field of both adapter types, so an adapter of       *)
(* either type can carry either name.                                      *)
(***************************************************************************)
AdapterPool ==
    ReferenceAdapters
    \cup {[kind |-> "visa", Name |-> <<"mastercard">>],
          [kind |-> "mastercard", Name |-> <<"visa">>]}

\* paymentProcessor := processor.NewPaymentProcessor(paymentProviders); the
\* list is kept next to the processor built from it
Construct ==
    /\ \A d \in Calls : call[d].pc = "idle"
    /\ \E paymentProviders \in ListsUpTo(AdapterPool, MaxProviders) :
          /\ providers' = NewPaymentProcessor(paymentProviders)
          /\ direct' = [NoDirect EXCEPT !.method = "NewPaymentProcessor",
                                        !.paymentProviders = paymentProviders]
    /\ UNCHANGED <<call, callerCtx>>

NextRegistry ==
    \/ Construct
    \/ \E c \in Calls :
          \/ CallSequential(c)
          \/ Resolve(c)
          \/ Validate(c)
          \/ Invoke(c)
          \/ ParseError(c)
          \/ ParseSuccess(c)
          \/ Finish(c)

RegistrySpec == Init /\ [][NextRegistry]_vars

(***************************************************************************)
(* Properties.                                                             *)
(***************************************************************************)
Done(c) == call[c].pc = "returned"
Registered(c) == call[c].paymentReqest.Mode \in DOMAIN providers
Succeeded(c) == Done(c) /\ call[c].response # NilPtr
Failed(c) == Done(c) /\ call[c].err # NilPtr
ErrorCodeOf(c) == Deref(call[c].err).ErrorCode
InvalidRequest(c) ==
    /\ call[c].response = NilPtr
    /\ call[c].err # NilPtr
    /\ ErrorCodeOf(c) = <<"INVALID_REQUEST">>

\* C1: a ProcessPayment call that has returned has returned exactly one of a
\* non-nil response and a non-nil error, never both and never neither.
C1_ExactlyOneResult ==
    \A c \in Calls : Done(c) => ((call[c].response # NilPtr) # (call[c].err # NilPtr))

\* a call has returned a response, and (for another request) one an error
C1_Witness ==
    \E c \in Calls : Succeeded(c) /\ call[c].err = NilPtr

\* C2: a response is returned only if, in that call, the adapter was
\* resolved, ValidateRequest returned nil, the adapter's ProcessPayment
\* returned a success envelope and no error envelope, and
\* ParseSuccessResponse returned no error.
C2_ResponseOnlyAfterFullPipeline ==
    \A c \in Calls :
       Succeeded(c) =>
          /\ call[c].trace = <<"getProvider", "ValidateRequest", "ProcessPayment",
                               "ParseSuccessResponse">>
          /\ Registered(c)
          /\ call[c].paymentProvider = providers[call[c].paymentReqest.Mode]
          /\ ValidateRequest(call[c].paymentProvider, call[c].paymentReqest) = NoErr
          /\ call[c].processResponse # NilV
          /\ call[c].processError = NilV
          /\ call[c].successParseError = NoErr
          /\ call[c].response = call[c].successResponse

\* a mastercard call went through all four stages and returned a response
C2_Witness ==
    \E c \in Calls :
       /\ Succeeded(c)
       /\ call[c].paymentProvider.kind = "mastercard"
       /\ Len(call[c].trace) = 4

\* C3: a request whose mode is not a key of the registry (the empty registry
\* included) gets a nil response and the error INVALID_PROVIDER with the
\* message "invalid provider name provided: '<mode>'".
C3_UnknownProvider ==
    \A c \in Calls :
       (Done(c) /\ ~Registered(c)) =>
          /\ call[c].response = NilPtr
          /\ call[c].err = Ref(PaymentError(<<"INVALID_PROVIDER">>,
                                   <<"invalid provider name provided: '">>
                                   \o call[c].paymentReqest.Mode \o <<"'">>))

\* a call for a registered name of another registry returned against the
\* empty registry
C3_Witness ==
    \E c \in Calls :
       /\ Done(c)
       /\ DOMAIN providers = {}
       /\ call[c].paymentReqest.Mode = <<"visa">>

\* C4: a request with amount <= 0 addressed to a registered adapter gets
\* INVALID_REQUEST, whichever adapter it is.
C4_NonPositiveAmount ==
    \A c \in Calls :
       (Done(c) /\ Registered(c) /\ FloatLE(call[c].paymentReqest.Amount, 0))
          => InvalidRequest(c)

\* a visa call with amount 0, all other fields valid, has returned
C4_Witness ==
    \E c \in Calls :
       /\ Done(c) /\ Registered(c)
       /\ call[c].paymentReqest =
             PaymentRequest(<<"visa">>, Fin(0), <<"USD">>, ValidCard,
                            <<"12">>, <<"2025">>, <<"123">>)

\* C5: a request addressed to a registered adapter whose card number is
\* shorter than 13 or longer than 19 bytes (the empty one included) gets
\* INVALID_REQUEST.
C5_CardNumberLength ==
    \A c \in Calls :
       (Done(c) /\ Registered(c)
        /\ GoLen(call[c].paymentReqest.CardNumber) \notin 13..19)
          => InvalidRequest(c)

\* a mastercard call with a 20 digit card, all other fields valid, has returned
C5_Witness ==
    \E c \in Calls :
       /\ Done(c) /\ Registered(c)
       /\ call[c].paymentReqest =
             PaymentRequest(<<"mastercard">>, Fin(2444), <<"USD">>, Repeat("4", 20),
                            <<"12">>, <<"2025">>, <<"123">>)

\* C6: a request addressed to a registered adapter whose CVV is shorter than
\* 3 or longer than 4 bytes (the empty one included) gets INVALID_REQUEST.
C6_CVVLength ==
    \A c \in Calls :
       (Done(c) /\ Registered(c) /\ GoLen(call[c].paymentReqest.CVV) \notin 3..4)
          => InvalidRequest(c)

\* a visa call with a 5 digit CVV, all other fields valid, has returned
C6_Witness ==
    \E c \in Calls :
       /\ Done(c) /\ Registered(c)
       /\ call[c].paymentReqest =
             PaymentRequest(<<"visa">>, Fin(2444), <<"USD">>, ValidCard,
                            <<"12">>, <<"2025">>, <<"12345">>)

\* the request of call c is addressed to a registered adapter and passes
\* that adapter's validation
ValidFor(c) ==
    /\ Registered(c)
    /\ ValidateRequest(providers[call[c].paymentReqest.Mode], call[c].paymentReqest) = NoErr

SuccessOnly(c) ==
    /\ call[c].response # NilPtr
    /\ Deref(call[c].response).Success
    /\ call[c].err = NilPtr

\* the error each adapter's simulated call reports, as its ParseErrorResponse
\* maps it
MappedError(kind) ==
    IF kind = "visa"
    THEN PaymentError(<<"EE000011">>,
                      <<"ErrorType:", "PAYMENT_FAILED", " :: ErrorReason: ", "Card declined">>)
    ELSE PaymentError(<<"MC0001">>, <<"Insufficient funds">>)

C8_ResponseEchoesRequest ==
    \A c \in Calls :
       Succeeded(c) =>
          LET r == Deref(call[c].response)
          IN  /\ FloatEq(r.Amount, call[c].paymentReqest.Amount)
              /\ r.Currency = call[c].paymentReqest.Currency
              /\ r.TransactionID # << >>
              /\ r.Status = (IF call[c].paymentProvider.kind = "visa"
                             THEN <<"SUCCESS">> ELSE <<"APPROVED">>)
              /\ r.Date # NilPtr
              /\ ~Deref(r.Date).isZero

\* C9: when the adapter's call returned an error envelope and
\* ParseErrorResponse decoded it, ProcessPayment returns the very error
\* ParseErrorResponse produced (not PROCESSING_ERROR) and a nil response,
\* and ParseSuccessResponse was not called.
C9_MappedErrorReturned ==
    \A c \in Calls :
       (Done(c) /\ call[c].processError # NilV /\ call[c].parseErroErr = NoErr) =>
          /\ call[c].parseErrorRes # NilPtr
          /\ call[c].err = call[c].parseErrorRes
          /\ call[c].err =
                ParseErrorResponse(call[c].paymentProvider, call[c].processError).ptr
          /\ ErrorCodeOf(c) # <<"PROCESSING_ERROR">>
          /\ call[c].response = NilPtr
          /\ \A i \in 1..Len(call[c].trace) : call[c].trace[i] # "ParseSuccessResponse"

\* a mastercard call got the error envelope and has returned MC0001
C9_Witness ==
    \E c \in Calls :
       /\ Done(c)
       /\ call[c].processError # NilV
       /\ call[c].paymentProvider.kind = "mastercard"
       /\ ErrorCodeOf(c) = <<"MC0001">>

\* what a call with this request can return when it runs alone
SoloResults(request) ==
    {ProcessPayment(providers, request, fail, now) :
        fail \in BOOLEAN, now \in 1..MaxClock}

\* C10: with several calls in flight on one processor, each call that has
\* returned has returned a result the same call can return when run alone,
\* the registry is never written, and every call that was entered returns.
C10_ConcurrentCallsIndependent ==
    /\ [](\A c \in Calls :
            Done(c) => [response |-> call[c].response, err |-> call[c].err]
                          \in SoloResults(call[c].paymentReqest))
    /\ [][providers' = providers]_vars
    /\ \A c \in Calls : (call[c].pc # "idle") ~> Done(c)

\* two calls with different requests are inside ProcessPayment at once, one
\* past its external call, and a third party has already got its result
C10_Witness ==
    \E c, d \in Calls :
       /\ c # d
       /\ Succeeded(c)
       /\ call[d].pc = "parseError"
       /\ call[c].paymentReqest # call[d].paymentReqest

\* the adapter methods call c has called so far
Called(c) == {call[c].trace[i] : i \in DOMAIN call[c].trace}

\* C11: a call whose caller cancelled before the invoke stage began, and that
\* got as far as that stage (its adapter resolved, its request valid), does
\* not call the adapter's ProcessPayment and returns PROCESSING_ERROR: not
\* INVALID_REQUEST, not a response.
C11_CancelShortCircuits ==
    \A c \in Calls :
       (Done(c) /\ callerCtx[c].done /\ "ValidateRequest" \in Called(c)
          /\ call[c].validationError = NoErr)
       => /\ "ProcessPayment" \notin Called(c)
          /\ call[c].response = NilPtr
          /\ call[c].err # NilPtr
          /\ ErrorCodeOf(c) = <<"PROCESSING_ERROR">>

\* C12: ProcessPayment(ctx, request) of either adapter, handed a context that
\* is already cancelled or past its deadline, returns an error envelope and
\* no success envelope.  (The call returns at all: it is one step.)
C12_AdapterHonoursContext ==
    (direct.method = "ProcessPayment" /\ direct.ctx.done)
    => (direct.out.err # NilV /\ direct.out.resp = NilV)

\* C13: no ProcessPayment call panics, whatever request it was given and
\* whatever envelope the provider call handed back.
C13_NeverPanics ==
    \A c \in Calls : call[c].pc # "panicked"

\* the codes ProcessPayment sets itself, and the codes the two adapters'
\* providers are documented to send
PipelineCodes ==
    {<<"INVALID_PROVIDER">>, <<"INVALID_REQUEST">>, <<"PROCESSING_ERROR">>,
     <<"PARSING_ERROR">>}
AdapterCodes == {<<"MC0001">>, <<"EE000011">>}

\* C14: the ErrorCode of every error ProcessPayment returns is one of the
\* four pipeline codes or a code of the adapters' own, and is never empty.
C14_ErrorCodeClosed ==
    \A c \in Calls :
       Failed(c) => /\ ErrorCodeOf(c) \in PipelineCodes \cup AdapterCodes
                    /\ ErrorCodeOf(c) # << >>

\* shapes of envelope members
IsString(x) == x.t = "string"
IsText(x) == IsString(x) /\ ToValidUTF8(x.v) = x.v
IsDecimalText(x) == IsString(x) /\ IsDecimal(x.v)

\* the native success envelope of each adapter with every required member
\* present and of the right shape
MasterCardShaped(e) ==
    /\ e.t = "map"
    /\ IsString(MapIndex(e.v, "transaction_id"))
    /\ IsString(MapIndex(e.v, "status"))
    /\ IsDecimalText(MapIndex(e.v, "amount"))
    /\ IsString(MapIndex(e.v, "currency"))
    /\ MapIndex(e.v, "timestamp").t = "time"

VisaShaped(e) ==
    /\ e.t = "map"
    /\ IsString(MapIndex(e.v, "payment_id"))
    /\ IsString(MapIndex(e.v, "state"))
    /\ MapIndex(e.v, "value").t = "map"
    /\ IsDecimalText(MapIndex(MapIndex(e.v, "value").v, "amount"))
    /\ IsString(MapIndex(MapIndex(e.v, "value").v, "currency_code"))
    /\ MapIndex(e.v, "processed_at").t = "int"

Shaped(p, e) == IF p.kind = "visa" THEN VisaShaped(e) ELSE MasterCardShaped(e)

\* C15: ParseSuccessResponse of either adapter, given an envelope in which a
\* required member (transaction id, status, amount, currency, timestamp) is
\* absent or of the wrong shape, returns an error and no response; it
\* neither panics nor fills in a default.
C15_MissingFieldIsParseFailure ==
    (direct.method = "ParseSuccessResponse" /\ ~Shaped(direct.provider, direct.envelope))
    => /\ ~direct.out.panic
       /\ direct.out.err # NoErr
       /\ direct.out.ptr = NilPtr

\* a visa error envelope {error_type: T, reason: R, details: {code: C}}
VisaNestedError(e) ==
    /\ e.t = "map"
    /\ IsString(MapIndex(e.v, "error_type"))
    /\ IsString(MapIndex(e.v, "reason"))
    /\ MapIndex(e.v, "details").t = "map"
    /\ IsString(MapIndex(MapIndex(e.v, "details").v, "code"))

VisaDirectError ==
    /\ direct.method = "ParseErrorResponse"
    /\ direct.provider.kind = "visa"
    /\ VisaNestedError(direct.envelope)

\* C16, as stated: the visa adapter maps every nested error envelope to the
\* error with code C and message "ErrorType:" T " :: ErrorReason: " R, the
\* strings as they stand in the envelope.
C16_VisaErrorVerbatim ==
    VisaDirectError =>
       LET e == direct.envelope.v
       IN  direct.out =
             Returned(Ref(PaymentError(e.details.v.code.v,
                                       <<"ErrorType:">> \o e.error_type.v
                                       \o <<" :: ErrorReason: ">> \o e.reason.v)),
                      NoErr)

\* C16, amended: the same mapping, each of T, R and C with every byte that is
\* not part of well-formed UTF-8 replaced by U+FFFD (text is left as it is).
C16_VisaErrorMapped ==
    VisaDirectError =>
       LET e == direct.envelope.v
       IN  direct.out =
             Returned(Ref(PaymentError(ToValidUTF8(e.details.v.code.v),
                                       <<"ErrorType:">> \o ToValidUTF8(e.error_type.v)
                                       \o <<" :: ErrorReason: ">>
                                       \o ToValidUTF8(e.reason.v))),
                      NoErr)

\* the visa adapter has parsed a nested error envelope whose code is no text
C16_Witness ==
    /\ VisaDirectError
    /\ ~IsText(direct.envelope.v.details.v.code)
    /\ IsText(direct.envelope.v.error_type)
    /\ direct.out.ptr # NilPtr

\* a mastercard error envelope {error_code: C, message: M}
MasterCardFlatError(e) ==
    /\ e.t = "map"
    /\ IsString(MapIndex(e.v, "error_code"))
    /\ IsString(MapIndex(e.v, "message"))

MasterCardDirectError ==
    /\ direct.method = "ParseErrorResponse"
    /\ direct.provider.kind = "mastercard"
    /\ MasterCardFlatError(direct.envelope)

\* C17, as stated: the mastercard adapter maps every flat error envelope to
\* the error with code C and message M, the strings as they stand.
C17_MasterCardErrorVerbatim ==
    MasterCardDirectError =>
       direct.out =
          Returned(Ref(PaymentError(direct.envelope.v.error_code.v,
                                    direct.envelope.v.message.v)),
                   NoErr)

\* C17, amended: the same mapping, C and M with every byte that is not part
\* of well-formed UTF-8 replaced by U+FFFD (text is left as it is).
C17_MasterCardErrorMapped ==
    MasterCardDirectError =>
       direct.out =
          Returned(Ref(PaymentError(ToValidUTF8(direct.envelope.v.error_code.v),
                                    ToValidUTF8(direct.envelope.v.message.v))),
                   NoErr)

\* the mastercard adapter has parsed a flat error envelope whose message
\* holds a stray lead byte, its code being text
C17_Witness ==
    /\ MasterCardDirectError
    /\ ~IsText(direct.envelope.v.message)
    /\ direct.envelope.v.error_code.v = <<"MC0001">>
    /\ direct.out.ptr # NilPtr

\* the members of a shaped success envelope, under the adapter's own names
NativeID(p, e) == IF p.kind = "visa" THEN e.v.payment_id ELSE e.v.transaction_id
NativeStatus(p, e) == IF p.kind = "visa" THEN e.v.state ELSE e.v.status
NativeAmount(p, e) == IF p.kind = "visa" THEN e.v.value.v.amount ELSE e.v.amount
NativeCurrency(p, e) == IF p.kind = "visa" THEN e.v.value.v.currency_code ELSE e.v.currency

\* a shaped success envelope all of whose strings are text
WellFormed(p, e) ==
    /\ Shaped(p, e)
    /\ IsText(NativeID(p, e))
    /\ IsText(NativeStatus(p, e))
    /\ IsText(NativeCurrency(p, e))

\* C18: ParseSuccessResponse of either adapter, given a well-formed native
\* success envelope (every member present, of the right shape, its strings
\* text), returns no error and a response with Success true, the
\* transaction id, status and currency of the envelope, the amount the
\* decimal string denotes, and a date.
C18_WellFormedParses ==
    (direct.method = "ParseSuccessResponse" /\ WellFormed(direct.provider, direct.envelope))
    => /\ ~direct.out.panic
       /\ direct.out.err = NoErr
       /\ direct.out.ptr # NilPtr
       /\ LET r == Deref(direct.out.ptr)
              p == direct.provider
              e == direct.envelope
          IN  /\ r.Success
              /\ r.TransactionID = NativeID(p, e).v
              /\ r.Status = NativeStatus(p, e).v
              /\ r.Currency = NativeCurrency(p, e).v
              /\ r.Amount = Fin(DecimalCents(NativeAmount(p, e).v))
              /\ r.Date # NilPtr

\* the mastercard adapter has parsed a well-formed envelope of amount 24.44
C18_Witness ==
    /\ direct.method = "ParseSuccessResponse"
    /\ direct.provider.kind = "mastercard"
    /\ WellFormed(direct.provider, direct.envelope)
    /\ direct.out.ptr # NilPtr
    /\ Deref(direct.out.ptr).Amount = Fin(2444)

\* a currency that is not three bytes of text
MalformedCurrency(cu) ==
    GoLen(cu) # 3 \/ \E i \in DOMAIN cu : cu[i] \in RawBytes

\* C19: ValidateRequest of either adapter returns an error for every request
\* whose currency is empty or malformed, whatever its other fields.
C19_MalformedCurrencyRejected ==
    (direct.method = "ValidateRequest"
       /\ (direct.request.Currency = << >> \/ MalformedCurrency(direct.request.Currency)))
    => direct.out # NoErr

\* the checks in the order they are to be made, each with its reason
ValidationRules(request) ==
    <<[violated |-> FloatLE(request.Amount, 0),
       reason |-> <<"amount must be greater than 0">>],
      [violated |-> FloatGT(request.Amount, 100000000),
       reason |-> <<"amount exceeds maximum limit of 1,000,000">>],
      [violated |-> request.Currency = << >>,
       reason |-> <<"currency is required">>],
      [violated |-> request.CardNumber = << >>,
       reason |-> <<"card number is required">>],
      [violated |-> GoLen(request.CardNumber) \notin 13..19,
       reason |-> <<"card number must be between 13 and 19 digits">>],
      [violated |-> request.ExpiryMonth = << >> \/ request.ExpiryYear = << >>,
       reason |-> <<"expiry month and year are required">>],
      [violated |-> request.CVV = << >>,
       reason |-> <<"CVV is required">>],
      [violated |-> GoLen(request.CVV) \notin 3..4,
       reason |-> <<"CVV must be 3 or 4 digits">>]>>

Violated(request) ==
    {i \in DOMAIN ValidationRules(request) : ValidationRules(request)[i].violated}

\* the reason of the first check the request fails
FirstReason(request) ==
    ValidationRules(request)[CHOOSE i \in Violated(request) :
                                \A j \in Violated(request) : i <= j].reason

\* C20: a call whose adapter is registered and whose request fails one or
\* more of the checks returns INVALID_REQUEST with, as its message, the
\* reason of the first check failed in the fixed order, and has called
\* nothing of the adapter after ValidateRequest.
C20_FirstFailedCheckReported ==
    \A c \in Calls :
       (Done(c) /\ Registered(c) /\ Violated(call[c].paymentReqest) # {})
       => /\ InvalidRequest(c)
          /\ Deref(call[c].err).ErrorMessage = FirstReason(call[c].paymentReqest)
          /\ call[c].trace = <<"getProvider", "ValidateRequest">>

\* a call to the visa adapter has returned for a request that misses both
\* the expiry date and the CVV
C20_Witness ==
    \E c \in Calls :
       /\ Done(c)
       /\ call[c].paymentReqest.Mode = <<"visa">>
       /\ Registered(c)
       /\ {6, 7, 8} \subseteq Violated(call[c].paymentReqest)
       /\ InvalidRequest(c)

\* the orders in which one call may call the adapter's methods, from entry
\* to return
Paths ==
    {<<"getProvider">>,
     <<"getProvider", "ValidateRequest">>,
     <<"getProvider", "ValidateRequest", "ProcessPayment", "ParseSuccessResponse">>,
     <<"getProvider", "ValidateRequest", "ProcessPayment", "ParseErrorResponse">>}

IsPrefix(s, t) == Len(s) <= Len(t) /\ SubSeq(t, 1, Len(s)) = s

\* C21: within one call the stages run in the order resolve, validate,
\* invoke, parse, each at most once; the adapter's ProcessPayment is called
\* only after an adapter was found and its ValidateRequest returned nil; and
\* exactly one of ParseSuccessResponse and ParseErrorResponse is called, after
\* ProcessPayment; a call that has returned has run one whole path.
C21_StagesInOrder ==
    \A c \in Calls :
       /\ \E path \in Paths : IsPrefix(call[c].trace, path)
       /\ Done(c) => call[c].trace \in Paths
       /\ "ProcessPayment" \in Called(c)
            => /\ call[c].paymentProvider # NilProvider
               /\ call[c].paymentProvider = providers[call[c].paymentReqest.Mode]
               /\ call[c].validationError = NoErr
               /\ ValidateRequest(call[c].paymentProvider, call[c].paymentReqest) = NoErr
       /\ (Done(c) /\ "ProcessPayment" \in Called(c))
            => (call[c].trace[4] = "ParseErrorResponse") = (call[c].processError # NilV)

\* a call has returned the adapter's mapped error after all four stages
C21_Witness ==
    \E c \in Calls :
       /\ Done(c)
       /\ call[c].trace =
             <<"getProvider", "ValidateRequest", "ProcessPayment", "ParseErrorResponse">>
       /\ call[c].err # NilPtr

\* what the call received from the adapter's ProcessPayment, once it has
\* called it
GotErrorEnvelope(c) == "ProcessPayment" \in Called(c) /\ call[c].processError # NilV
GotSuccessEnvelope(c) == "ProcessPayment" \in Called(c) /\ call[c].processError = NilV

\* C22: a call that got an error envelope and whose ParseErrorResponse
\* returned an error returns PROCESSING_ERROR; a call that got a success
\* envelope and whose ParseSuccessResponse returned an error returns
\* PARSING_ERROR; both with a nil response and the parse error's text as
\* message.
C22_ParseFailureByBranch ==
    \A c \in Calls :
       Done(c) =>
          /\ (GotErrorEnvelope(c) /\ call[c].parseErroErr # NoErr)
               => [response |-> call[c].response, err |-> call[c].err]
                    = ReturnError(<<"PROCESSING_ERROR">>, ErrorText(call[c].parseErroErr))
          /\ (GotSuccessEnvelope(c) /\ call[c].successParseError # NoErr)
               => [response |-> call[c].response, err |-> call[c].err]
                    = ReturnError(<<"PARSING_ERROR">>, ErrorText(call[c].successParseError))

\* a call has returned after ParseErrorResponse could not decode the error
\* envelope it was given
C22_Witness ==
    \E c \in Calls :
       /\ Done(c)
       /\ GotErrorEnvelope(c)
       /\ call[c].parseErroErr = NewError(<<"invalid response error type">>)
       /\ ErrorCodeOf(c) = <<"PROCESSING_ERROR">>

\* what json can decode into a string field, and into a struct: a missing
\* member or null leaves the field as it is
DecodesAsString(x) == x.t \in {"string", "time", "nil"}
DecodesAsStruct(x) == x.t \in {"map", "nil"}

\* the error envelope can be decoded into the adapter's error type
VisaErrorDecodable(e) ==
    /\ DecodesAsStruct(e)
    /\ e.t = "map" =>
         /\ DecodesAsString(MapIndex(e.v, "error_type"))
         /\ DecodesAsString(MapIndex(e.v, "reason"))
         /\ DecodesAsStruct(MapIndex(e.v, "details"))
         /\ MapIndex(e.v, "details").t = "map"
              => DecodesAsString(MapIndex(MapIndex(e.v, "details").v, "code"))

MasterCardErrorDecodable(e) ==
    /\ DecodesAsStruct(e)
    /\ e.t = "map" =>
         /\ DecodesAsString(MapIndex(e.v, "error_code"))
         /\ DecodesAsString(MapIndex(e.v, "message"))

ErrorDecodable(p, e) ==
    IF p.kind = "visa" THEN VisaErrorDecodable(e) ELSE MasterCardErrorDecodable(e)

\* C23: ParseErrorResponse of either adapter returns an error only for an
\* envelope that cannot be decoded (no JSON object, or a member of a type
\* its field cannot take); for every envelope that can, members missing or
\* not, it returns an error value with Success false and a nil error.
C23_ErrorParseFailsOnlyUndecodable ==
    direct.method = "ParseErrorResponse" =>
       /\ ~direct.out.panic
       /\ ErrorDecodable(direct.provider, direct.envelope)
            => /\ direct.out.err = NoErr
               /\ direct.out.ptr # NilPtr
               /\ ~Deref(direct.out.ptr).Success
       /\ ~ErrorDecodable(direct.provider, direct.envelope)
            => /\ direct.out.err # NoErr
               /\ direct.out.ptr = NilPtr

\* the visa adapter has parsed an error envelope that has no details member
C23_Witness ==
    /\ direct.method = "ParseErrorResponse"
    /\ direct.provider.kind = "visa"
    /\ direct.envelope.t = "map"
    /\ MapIndex(direct.envelope.v, "details").t = "nil"
    /\ MapIndex(direct.envelope.v, "reason").t = "string"
    /\ direct.out.err = NoErr
    /\ direct.out.ptr # NilPtr

\* the adapter that stands last in list among those named name
LastNamed(list, name) ==
    list[CHOOSE i \in DOMAIN list :
            /\ GetName(list[i]) = name
            /\ \A j \in DOMAIN list : GetName(list[j]) = name => j <= i]

NamesOf(list) == {GetName(list[i]) : i \in DOMAIN list}

\* C24: a processor built from a list of adapters, whether or not two of them
\* have the same name, resolves every name of the list to the adapter that
\* stands last in the list under that name and no other name at all; a call
\* that has resolved its adapter holds that one.
C24_LastRegisteredWins ==
    direct.method = "NewPaymentProcessor" =>
       LET list == direct.paymentProviders
       IN  /\ DOMAIN providers = NamesOf(list)
           /\ \A name \in NamesOf(list) :
                 getProvider(providers, name) = [pr |-> LastNamed(list, name), err |-> NoErr]
           /\ \A c \in Calls :
                 call[c].paymentProvider # NilProvider
                    => call[c].paymentProvider = LastNamed(list, call[c].paymentReqest.Mode)

\* the list held two different adapters of one name, and a call for that
\* name has been answered by the second
C24_Witness ==
    /\ direct.method = "NewPaymentProcessor"
    /\ Len(direct.paymentProviders) >= 2
    /\ GetName(direct.paymentProviders[1]) = GetName(direct.paymentProviders[2])
    /\ direct.paymentProviders[1] # direct.paymentProviders[2]
    /\ \E c \in Calls :
          /\ Done(c)
          /\ call[c].paymentProvider = direct.paymentProviders[2]

\* C25: no step of any call writes the registry or the request the call was
\* given, and whatever calls came before or run beside it, a call returns a
\* result that the same request can produce on the registry as it was built.
C25_CallsLeaveRegistryAndRequest ==
    /\ [][providers' = providers]_vars
    /\ [][\A c \in Calls :
            (call[c].pc # "idle" /\ call'[c].pc # "idle")
               => call'[c].paymentReqest = call[c].paymentReqest]_vars
    /\ [](\A c \in Calls :
            Done(c) => \E fail \in BOOLEAN, now \in 1..MaxClock :
                          ProcessPayment(providers, call[c].paymentReqest, fail, now)
                             = [response |-> call[c].response, err |-> call[c].err])

\* two calls with the same request have returned on one processor, one with
\* a response and one with the adapter's error
C25_Witness ==
    \E c, d \in Calls :
       /\ c # d
       /\ call[c].paymentReqest = call[d].paymentReqest
       /\ Succeeded(c)
       /\ Failed(d)
       /\ call[d].parseErrorRes # NilPtr

AmountInRange(a) == a.cls = "fin" /\ 0 < a.c /\ a.c <= 100000000

Acceptable(request) ==
    /\ AmountInRange(request.Amount)
    /\ request.Currency # << >>
    /\ GoLen(request.CardNumber) \in 13..19
    /\ request.ExpiryMonth # << >>
    /\ request.ExpiryYear # << >>
    /\ GoLen(request.CVV) \in 3..4

\* C27: ValidateRequest of either adapter returns nil if and only if
\* 0 < amount <= 1,000,000, the currency is not empty, the card number has
\* 13 to 19 bytes, expiry month and year are not empty and the CVV has 3 or
\* 4 bytes.
C27_AcceptedIffInRange ==
    direct.method = "ValidateRequest"
    => ((direct.out = NoErr) <=> Acceptable(direct.request))

\* C28: on a processor holding reference adapters only, with their own
\* simulated provider call, no call panics and every call that has returned
\* has returned a response, INVALID_PROVIDER, INVALID_REQUEST or its
\* adapter's mapped error, never PROCESSING_ERROR or PARSING_ERROR: no parse
\* method returns an error.
C28_NoParseFailures ==
    \A c \in Calls :
       /\ call[c].pc # "panicked"
       /\ call[c].parseErroErr = NoErr
       /\ call[c].successParseError = NoErr
       /\ Done(c) =>
            \/ Succeeded(c) /\ call[c].err = NilPtr
            \/ Failed(c) /\ ErrorCodeOf(c) = <<"INVALID_PROVIDER">>
            \/ Failed(c) /\ ErrorCodeOf(c) = <<"INVALID_REQUEST">>
            \/ /\ call[c].response = NilPtr
               /\ call[c].paymentProvider \in ReferenceAdapters
               /\ call[c].err = Ref(MappedError(call[c].paymentProvider.kind))

\* the mastercard adapter has parsed the success envelope it made for a
\* request whose amount is not a number and whose currency is not text
C28_Witness ==
    \E c \in Calls :
       /\ Succeeded(c)
       /\ call[c].paymentProvider.kind = "mastercard"
       /\ call[c].paymentReqest.Amount = NaN
       /\ call[c].paymentReqest.Currency = <<"0xFF">>

\* C29: a call whose mode is not registered returns INVALID_PROVIDER and no
\* response after getProvider alone, whatever is wrong with its other
\* fields; and INVALID_PROVIDER is returned to no call whose mode is
\* registered.
C29_ResolutionBeforeValidation ==
    \A c \in Calls :
       Done(c) =>
          /\ ~Registered(c)
               => /\ call[c].response = NilPtr
                  /\ call[c].err # NilPtr
                  /\ ErrorCodeOf(c) = <<"INVALID_PROVIDER">>
                  /\ call[c].trace = <<"getProvider">>
          /\ (Failed(c) /\ ErrorCodeOf(c) = <<"INVALID_PROVIDER">>) => ~Registered(c)

\* a call naming no registered adapter, with a non-positive amount and no
\* card number, has returned
C29_Witness ==
    \E c \in Calls :
       /\ Done(c)
       /\ ~Registered(c)
       /\ DOMAIN providers # {}
       /\ {1, 4} \subseteq Violated(call[c].paymentReqest)

\* C30: what ValidateRequest of an adapter returns for a request is what the
\* ValidateRequest of each of the two adapter types returns for it, error
\* text included, and what it returns for the same request under any other
\* mode.
C30_AdaptersValidateAlike ==
    direct.method = "ValidateRequest" =>
       /\ direct.out = VisaValidateRequest(direct.request)
       /\ direct.out = MasterCardValidateRequest(direct.request)
       /\ \A mode \in Modes :
             /\ VisaValidateRequest([direct.request EXCEPT !.Mode = mode]) = direct.out
             /\ MasterCardValidateRequest([direct.request EXCEPT !.Mode = mode]) = direct.out

\* the mastercard adapter has accepted a request of exactly 1,000,000
\* addressed to visa
C30_Witness ==
    /\ direct.method = "ValidateRequest"
    /\ direct.provider.kind = "mastercard"
    /\ direct.request.Mode = <<"visa">>
    /\ direct.request.Amount = Fin(100000000)
    /\ direct.out = NoErr

====
